---- MODULE Spec2Model ----
(***************************************************************************)
(* Model of the Pi0-FAST policy variants of openpi                         *)
(* (src/openpi/models/pi0_fast_predictive.py and                           *)
(* src/openpi/models/pi0_fast_obs_distilled.py): the attention mask        *)
(* builder, the left-to-right alignment, the sequence embedders, the       *)
(* decode loop of sample_actions with its cache layout, the logit          *)
(* computations and compute_loss; and of ObservationDistillationTransform  *)
(* (src/openpi/policies/libero_obs_distillation_policy.py).                *)
(*                                                                         *)
(* Specifications: Spec (decode loop, any logits), SpecCache (decode loop, *)
(* any prefix lengths), SpecAlign (mask and alignment), SpecEmbed (the     *)
(* embedders), SpecLoss (compute_loss and the entry of sample_actions),    *)
(* SpecTransform (the data transform, then LiberoObsDistillationInputs).   *)
(*                                                                         *)
(* Arrays are functions over 0..n-1, as in the source (0-based indices).   *)
(* make_attn_mask, left_to_right_align and the embedders act on every      *)
(* example of the batch independently (axis 1 / jax.vmap), so the prefix   *)
(* stage is modelled for one example (one row of the batch); the decode    *)
(* loop, whose stop flag reduces over the batch, is modelled for a batch.  *)
(***************************************************************************)
EXTENDS Integers, Sequences, FiniteSets, TLC

VARIABLES
    pc,                 \* position of the call being modelled
    \* ---- prefix stage (one example) ----
    obs,                \* the Observation given to the embedder
    actions_in,         \* the action horizon given to the embedder, or NoActions
    use_action_input,   \* config.use_current_action_input / use_prev_action_input
    embedder,           \* which embedder produced the sequence
    token_embeddings,   \* embedded sequence
    input_mask,         \* validity mask
    ar_mask,            \* autoregressive-flag mask
    attn_mask,          \* square attention mask
    prefix,             \* the right-aligned prefix (x, input_mask, attn_mask)
    \* ---- decode loop (a batch) ----
    max_decoding_steps, \* argument of sample_actions
    temperature,        \* argument of sample_actions
    rng,                \* carry[0]: the random key
    last_logit,         \* carry[1]: logits of the last forward pass, per example
    output_tokens,      \* carry[2]: the output buffer, per example
    kv_cache,           \* carry[3]: number of cache slots filled by decode steps
    all_eos,            \* carry[4]: the all-terminated flag
    step,               \* carry[5]: the step counter
    token,              \* the token selected by the last step, per example
    logit_rows,         \* the rows of logits the backbone of this run returns
    prefix_mask,        \* validity mask of the prefix, per example
    prefill_size,       \* width of the prefix buffer
    prefill_len,        \* number of valid prefix positions, per example
    prefix_start,       \* first valid cache position, per example
    prefix_positions,   \* position indices of the prefix pass, per example
    positions,          \* position index of the last decode step, per example
    decode_mask,        \* mask of the last decode step, per example
    \* ---- loss computation (one example) ----
    config,             \* the model's configuration
    teacher_model,      \* self.teacher_model after construction
    observation,        \* the call's observation argument
    prev_observation,   \* the call's prev_observation argument, or None
    call_actions,       \* the call's prev_actions / current_actions, or None
    result,             \* what the call computed
    \* ---- ObservationDistillationTransform (one sample) ----
    handle_first_timestep, \* the transform's option
    data,               \* the input record of the transform
    transform_result,   \* the record the transform returns
    inputs              \* the record LiberoObsDistillationInputs returns

prefix_vars == <<obs, actions_in, use_action_input, embedder,
                 token_embeddings, input_mask, ar_mask, attn_mask, prefix>>
layout_vars == <<logit_rows, prefix_mask, prefill_size, prefill_len,
                 prefix_start, prefix_positions, positions, decode_mask>>
decode_vars == <<max_decoding_steps, temperature, rng, last_logit,
                 output_tokens, kv_cache, all_eos, step, token, layout_vars>>
loss_vars == <<config, teacher_model, observation, prev_observation,
               call_actions, result>>
transform_vars == <<handle_first_timestep, data, transform_result, inputs>>
vars == <<pc, prefix_vars, decode_vars, loss_vars, transform_vars>>

-----------------------------------------------------------------------------
(* Bounds of the model *)

MaxSeqLen == 4          \* longest sequence given to the pure prefix functions
MaxImages == 2          \* most cameras in an observation
ImageSegmentLength == 2 \* tokens the vision encoder returns per image
ActionHorizon == 2      \* length of a supplied action horizon
MaxTokenLen == 3        \* length of the tokenized prompt
BatchSize == 2          \* examples in a decoded batch
MaxDecodingSteps == 3   \* largest max_decoding_steps tried
VocabSize == 3          \* tokens 0..VocabSize-1
MaxLogit == 1           \* logits range over 0..MaxLogit
KeySpace == 3           \* random keys 0..KeySpace-1
MaxKlWeight == 2        \* config.kl_weight is 1 or MaxKlWeight
MaxCe == 2              \* per-position cross-entropy values 1..MaxCe
MaxKl == 2              \* per-position KL values 0..MaxKl
ActionDim == 2          \* action_dim of the transform
MaxTimestep == 2        \* timesteps of a record range over 0..MaxTimestep

PALIGEMMA_EOS_TOKEN == 1

\* np.zeros(8) and np.zeros((224, 224, 3)): the defaults of a missing state
\* and of a missing image; an image with 3 rows is taken as channel-first
DefaultStateDim == 8
DefaultImageSize == 224
RgbChannels == 3

Vocab == 0 .. (VocabSize - 1)
Batch == 0 .. (BatchSize - 1)

-----------------------------------------------------------------------------
(* Array helpers *)

Size(a) == Cardinality(DOMAIN a)

Range0(n) == 0 .. (n - 1)

\* jnp.max over a non-empty integer array
MaxOf(a) == CHOOSE m \in {a[i] : i \in DOMAIN a} : \A i \in DOMAIN a : a[i] <= m

RECURSIVE SumTo(_, _)
\* a[0] + ... + a[i]
SumTo(a, i) == IF i < 0 THEN 0 ELSE a[i] + SumTo(a, i - 1)

\* jnp.cumsum along the sequence axis
Cumsum(a) == [i \in DOMAIN a |-> SumTo(a, i)]

\* jnp.roll(a, shift, axis=0): element i moves to (i + shift) mod n
Roll(a, shift) ==
    LET n == Size(a) IN [p \in DOMAIN a |-> a[(p - shift) % n]]

\* jnp.roll(m, shift, axis=(0, 1)) of a square matrix
Roll2(m, shift) ==
    LET n == Size(m) IN
    [p \in DOMAIN m |-> [q \in DOMAIN m |-> m[(p - shift) % n][(q - shift) % n]]]

\* jnp.concatenate along the sequence axis
Concat(a, b) ==
    LET na == Size(a) IN
    [i \in Range0(na + Size(b)) |-> IF i < na THEN a[i] ELSE b[i - na]]

Empty == [i \in {} |-> 0]

-----------------------------------------------------------------------------
(* make_attn_mask *)

\* a plausible slip: strict comparison of the cumulative sums
make_attn_mask_strict(input_mask_, mask_ar_) ==
    LET cumsum == Cumsum(mask_ar_) IN
    [i \in DOMAIN input_mask_ |-> [j \in DOMAIN input_mask_ |->
        (cumsum[j] < cumsum[i]) /\ (input_mask_[j] /\ input_mask_[i])]]

\* a plausible slip: the comparison of the cumulative sums reversed
make_attn_mask_reversed(input_mask_, mask_ar_) ==
    LET cumsum == Cumsum(mask_ar_) IN
    [i \in DOMAIN input_mask_ |-> [j \in DOMAIN input_mask_ |->
        (cumsum[i] <= cumsum[j]) /\ (input_mask_[j] /\ input_mask_[i])]]

\* attn_mask[i][j]: position i may attend to position j
make_attn_mask(input_mask_, mask_ar_) ==
    LET cumsum == Cumsum(mask_ar_) IN
    [i \in DOMAIN input_mask_ |-> [j \in DOMAIN input_mask_ |->
        (cumsum[j] <= cumsum[i]) /\ (input_mask_[j] /\ input_mask_[i])]]

-----------------------------------------------------------------------------
(* left_to_right_align (one example: the function is vmapped) *)

\* seqlen = jnp.max(input_mask * jnp.arange(n)) + 1
AlignSeqlen(input_mask_) ==
    MaxOf([i \in DOMAIN input_mask_ |-> IF input_mask_[i] THEN i ELSE 0]) + 1

\* a plausible slip: the attention mask rolled along its first axis only
left_to_right_align_rows(x, input_mask_, attn_mask_) ==
    LET seqlen == AlignSeqlen(input_mask_) IN
    [x |-> Roll(x, -seqlen),
     input_mask |-> Roll(input_mask_, -seqlen),
     attn_mask |-> Roll(attn_mask_, -seqlen)]

left_to_right_align(x, input_mask_, attn_mask_) ==
    LET seqlen == AlignSeqlen(input_mask_) IN
    [x |-> Roll(x, -seqlen),
     input_mask |-> Roll(input_mask_, -seqlen),
     attn_mask |-> Roll2(attn_mask_, -seqlen)]

-----------------------------------------------------------------------------
(* The sequence embedders (one example) *)

\* one embedding vector: the segment it belongs to, its source (the camera
\* index of an image token, 0 otherwise) and what it embeds (the patch index,
\* the action index of the horizon, or the token id looked up)
Emb(seg, src, k) == [seg |-> seg, src |-> src, k |-> k]

NoActions == [is_none |-> TRUE, value |-> Empty]

SomeActions == [is_none |-> FALSE, value |-> [k \in Range0(ActionHorizon) |-> k]]

NoSegments == [token_embeddings |-> Empty, input_mask |-> Empty, ar_mask |-> Empty]

\* list.append on the three lists, seen after the final jnp.concatenate
AppendSegment(acc, emb, mask, ar) ==
    [token_embeddings |-> Concat(acc.token_embeddings, emb),
     input_mask |-> Concat(acc.input_mask, mask),
     ar_mask |-> Concat(acc.ar_mask, ar)]

\* PaliGemma.img(obs.images[name]): a fixed number of tokens per image
ImageTokenEmbeddings(name) == [k \in Range0(ImageSegmentLength) |-> Emb("img", name, k)]

RECURSIVE ImageSegments(_, _)
\* the loop "for name in obs.images" over the first n cameras
ImageSegments(obs_, n) ==
    IF n = 0 THEN NoSegments
    ELSE LET name == n - 1
             image_token_embeddings == ImageTokenEmbeddings(name)
             \* einops.repeat(obs.image_masks[name], "b -> b s")
             mask == [k \in DOMAIN image_token_embeddings |-> obs_.image_masks[name]]
         IN AppendSegment(ImageSegments(obs_, n - 1), image_token_embeddings,
                          mask, [k \in DOMAIN mask |-> 0])

\* the action span: every action of the horizon projected by the shared layer
ActionSegment(acc, actions) ==
    LET action_horizon == Size(actions.value)
        action_emb == [k \in Range0(action_horizon) |-> Emb("act", 0, actions.value[k])]
    IN AppendSegment(acc, action_emb,
                     [k \in Range0(action_horizon) |-> TRUE],
                     [k \in Range0(action_horizon) |-> 0])

\* the prompt: embedding lookup, the prompt mask and the caller's ar mask
PromptSegment(acc, obs_) ==
    AppendSegment(acc,
                  [k \in DOMAIN obs_.tokenized_prompt |-> Emb("tok", 0, obs_.tokenized_prompt[k])],
                  obs_.tokenized_prompt_mask,
                  obs_.token_ar_mask)

\* Pi0FASTObsDistilled.embed_inputs: no action span
embed_inputs(obs_) ==
    PromptSegment(ImageSegments(obs_, Size(obs_.images)), obs_)

\* Pi0FASTObsDistilled.embed_inputs_with_prev_action
embed_inputs_with_prev_action(obs_, prev_actions, use_prev_action_input) ==
    LET images == ImageSegments(obs_, Size(obs_.images)) IN
    IF (~prev_actions.is_none) /\ use_prev_action_input
    THEN PromptSegment(ActionSegment(images, prev_actions), obs_)
    ELSE PromptSegment(images, obs_)

\* a plausible slip: the action span appended after the prompt
embed_inputs_with_current_action_last(obs_, current_actions, use_current_action_input) ==
    LET images == ImageSegments(obs_, Size(obs_.images)) IN
    IF (~current_actions.is_none) /\ use_current_action_input
    THEN ActionSegment(PromptSegment(images, obs_), current_actions)
    ELSE PromptSegment(images, obs_)

\* Pi0FASTPredictive.embed_inputs_with_current_action
embed_inputs_with_current_action(obs_, current_actions, use_current_action_input) ==
    LET images == ImageSegments(obs_, Size(obs_.images)) IN
    IF (~current_actions.is_none) /\ use_current_action_input
    THEN PromptSegment(ActionSegment(images, current_actions), obs_)
    ELSE PromptSegment(images, obs_)

-----------------------------------------------------------------------------
(* The logit computations and compute_loss (one example) *)

\* an optional observation argument: None, or an observation
NoObservation ==
    [is_none |-> TRUE,
     value |-> [images |-> Empty, image_masks |-> Empty, tokenized_prompt |-> Empty,
                tokenized_prompt_mask |-> Empty, token_ar_mask |-> Empty,
                token_loss_mask |-> Empty, absent |-> {}]]

SomeObservation(obs_) == [is_none |-> FALSE, value |-> obs_]

\* obs.<field> is None
IsNone(obs_, field) == field \in obs_.absent

\* a loss value: the quotient num / den of the final division
Quotient(num, den) == [num |-> num, den |-> den]

NoConfig == [use_teacher_model |-> FALSE, teacher_checkpoint |-> FALSE,
             kl_weight |-> 0, use_action_input |-> FALSE]

NoResult ==
    [fn |-> "none", raised |-> FALSE, student_logits |-> Empty, teacher_logits |-> Empty,
     teacher_called |-> FALSE, targets |-> Empty, loss_mask |-> Empty,
     ce_loss |-> Quotient(0, 1), kl_loss |-> Quotient(0, 1),
     total_loss |-> Quotient(0, 1), shape |-> << >>]

TransformIdle ==
    /\ handle_first_timestep = "none"
    /\ data = Empty
    /\ transform_result = Empty
    /\ inputs = Empty

LossIdle ==
    /\ config = NoConfig
    /\ teacher_model = "None"
    /\ observation = NoObservation.value
    /\ prev_observation = NoObservation
    /\ call_actions = NoActions
    /\ result = NoResult

\* x[:-1]
DropLast(x) == [p \in Range0(Size(x) - 1) |-> x[p]]

\* m[:-1, :-1]
DropLast2(m) == [i \in Range0(Size(m) - 1) |-> DropLast(m[i])]

\* a plausible slip: the first n entries are taken instead of the last n
FirstN(x, n) ==
    IF n = 0 \/ n >= Size(x) THEN x ELSE [k \in Range0(n) |-> x[k]]

\* x[-n:] (the whole of x when n is 0, as a Python slice gives)
LastN(x, n) ==
    IF n = 0 \/ n >= Size(x) THEN x
    ELSE [k \in Range0(n) |-> x[Size(x) - n + k]]

\* x[1:]
DropFirst(x) == [k \in Range0(Size(x) - 1) |-> x[k + 1]]

\* PaliGemma.llm of the named model on an embedded sequence under a mask: the
\* output at position p is fixed by the model, the position and the
\* embeddings position p may attend to
Llm(model, embedded_prefix, mask_) ==
    [p \in DOMAIN embedded_prefix |->
        [model |-> model, pos |-> p, at |-> embedded_prefix[p],
         sees |-> {<<j, embedded_prefix[j]>> : j \in {i \in DOMAIN embedded_prefix : mask_[p][i]}}]]

\* self.teacher_model.embed_inputs: the no-action embedding of Pi0FAST
teacher_model_embed_inputs(obs_) == embed_inputs(obs_)

\* Pi0FASTObsDistilled.compute_student_logits
compute_student_logits(prev_observation_, prev_actions, use_prev_action_input) ==
    LET e == embed_inputs_with_prev_action(prev_observation_, prev_actions,
                                           use_prev_action_input)
        attn_mask_ == make_attn_mask(e.input_mask, e.ar_mask)
        targets_shape == Size(prev_observation_.tokenized_prompt) - 1
        pre_logits == Llm("self", DropLast(e.token_embeddings), DropLast2(attn_mask_))
    IN LastN(pre_logits, targets_shape)

\* a plausible slip: the forward pass run on the whole sequence
compute_teacher_logits_full(teacher_model_, current_observation) ==
    LET e == IF teacher_model_ = "None"
             THEN embed_inputs(current_observation)
             ELSE teacher_model_embed_inputs(current_observation)
        attn_mask_ == make_attn_mask(e.input_mask, e.ar_mask)
        targets_shape == Size(current_observation.tokenized_prompt) - 1
        pre_logits == Llm(IF teacher_model_ = "None" THEN "self" ELSE "teacher_model",
                          e.token_embeddings, attn_mask_)
    IN LastN(pre_logits, targets_shape)

\* Pi0FASTObsDistilled.compute_teacher_logits
compute_teacher_logits(teacher_model_, current_observation) ==
    LET e == IF teacher_model_ = "None"
             THEN embed_inputs(current_observation)
             ELSE teacher_model_embed_inputs(current_observation)
        attn_mask_ == make_attn_mask(e.input_mask, e.ar_mask)
        targets_shape == Size(current_observation.tokenized_prompt) - 1
        pre_logits == Llm(IF teacher_model_ = "None" THEN "self" ELSE "teacher_model",
                          DropLast(e.token_embeddings), DropLast2(attn_mask_))
    IN LastN(pre_logits, targets_shape)

-----------------------------------------------------------------------------
(* The prefix stage of sample_actions and of the logit computations *)

NoObs == [images |-> Empty, image_masks |-> Empty, tokenized_prompt |-> Empty,
          tokenized_prompt_mask |-> Empty, token_ar_mask |-> Empty]

NoPrefix == [x |-> Empty, input_mask |-> Empty, attn_mask |-> Empty]

\* the prompts tried: two token sequences of the configured length
Prompts == {[p \in Range0(MaxTokenLen) |-> (p + o) % VocabSize] : o \in 0 .. 1}

\* the prompt's autoregressive masks tried: all bidirectional, all causal and
\* the two alternating masks (every mask is tried on make_attn_mask itself
\* under SpecAlign)
ArMasks ==
    {[p \in Range0(MaxTokenLen) |-> 0], [p \in Range0(MaxTokenLen) |-> 1]}
        \cup {[p \in Range0(MaxTokenLen) |-> (p + o) % 2] : o \in 0 .. 1}

Observations ==
    UNION {[images : {[c \in Range0(n) |-> c]},
            image_masks : [Range0(n) -> BOOLEAN],
            tokenized_prompt : Prompts,
            tokenized_prompt_mask : [Range0(MaxTokenLen) -> BOOLEAN],
            token_ar_mask : ArMasks] : n \in 0 .. MaxImages}

DecodeIdle ==
    /\ max_decoding_steps = 0
    /\ temperature = 0
    /\ rng = 0
    /\ last_logit = Empty
    /\ output_tokens = Empty
    /\ kv_cache = 0
    /\ all_eos = FALSE
    /\ step = 0
    /\ token = Empty
    /\ logit_rows = {}
    /\ prefix_mask = Empty
    /\ prefill_size = 0
    /\ prefill_len = Empty
    /\ prefix_start = Empty
    /\ prefix_positions = Empty
    /\ positions = Empty
    /\ decode_mask = Empty

\* the arguments of an embedder call
InitEmbed ==
    /\ pc = "embed"
    /\ obs \in Observations
    /\ actions_in \in {NoActions, SomeActions}
    /\ use_action_input \in BOOLEAN
    /\ embedder = "none"
    /\ token_embeddings = Empty
    /\ input_mask = Empty
    /\ ar_mask = Empty
    /\ attn_mask = Empty
    /\ prefix = NoPrefix
    /\ DecodeIdle
    /\ LossIdle
    /\ TransformIdle

\* the arguments of make_attn_mask and left_to_right_align, drawn freely
InitAlign ==
    /\ pc = "mask"
    /\ obs = NoObs
    /\ actions_in = NoActions
    /\ use_action_input = FALSE
    /\ embedder = "none"
    /\ \E n \in 1 .. MaxSeqLen :
          /\ token_embeddings = [k \in Range0(n) |-> Emb("x", 0, k)]
          /\ input_mask \in [Range0(n) -> BOOLEAN]
          /\ ar_mask \in [Range0(n) -> 0 .. 1]
    /\ attn_mask = Empty
    /\ prefix = NoPrefix
    /\ DecodeIdle
    /\ LossIdle
    /\ TransformIdle

Embedded(e, name) ==
    /\ pc = "embed"
    /\ pc' = "mask"
    /\ embedder' = name
    /\ token_embeddings' = e.token_embeddings
    /\ input_mask' = e.input_mask
    /\ ar_mask' = e.ar_mask
    /\ UNCHANGED <<obs, actions_in, use_action_input, attn_mask, prefix, decode_vars, loss_vars, transform_vars>>

\* compute_teacher_logits: self.embed_inputs(current_observation)
EmbedInputs == Embedded(embed_inputs(obs), "embed_inputs")

\* Pi0FASTObsDistilled.sample_actions / compute_student_logits
EmbedInputsWithPrevAction ==
    Embedded(embed_inputs_with_prev_action(obs, actions_in, use_action_input),
             "embed_inputs_with_prev_action")

\* Pi0FASTPredictive.sample_actions / compute_loss
EmbedInputsWithCurrentAction ==
    Embedded(embed_inputs_with_current_action(obs, actions_in, use_action_input),
             "embed_inputs_with_current_action")

\* attn_mask = make_attn_mask(input_mask, ar_mask)
MakeAttnMask ==
    /\ pc = "mask"
    /\ pc' = "align"
    /\ attn_mask' = make_attn_mask(input_mask, ar_mask)
    /\ UNCHANGED <<obs, actions_in, use_action_input, embedder, token_embeddings,
                   input_mask, ar_mask, prefix, decode_vars, loss_vars, transform_vars>>

\* sample_actions: the prefix is right-aligned (embed_inputs, the teacher's
\* path, is never aligned: it is used by compute_teacher_logits only)
LeftToRightAlign ==
    /\ pc = "align"
    /\ embedder # "embed_inputs"
    /\ pc' = "aligned"
    /\ prefix' = left_to_right_align(token_embeddings, input_mask, attn_mask)
    /\ UNCHANGED <<obs, actions_in, use_action_input, embedder, token_embeddings,
                   input_mask, ar_mask, attn_mask, decode_vars, loss_vars, transform_vars>>

NextAlign == MakeAttnMask \/ LeftToRightAlign

SpecAlign == InitAlign /\ [][NextAlign]_vars

NextEmbed ==
    \/ EmbedInputs
    \/ EmbedInputsWithPrevAction
    \/ EmbedInputsWithCurrentAction
    \/ MakeAttnMask
    \/ LeftToRightAlign

SpecEmbed == InitEmbed /\ [][NextEmbed]_vars

-----------------------------------------------------------------------------
(* The decode loop of sample_actions (both variants share the code) *)

PrefixIdle ==
    /\ obs = NoObs
    /\ actions_in = NoActions
    /\ use_action_input = FALSE
    /\ embedder = "none"
    /\ token_embeddings = Empty
    /\ input_mask = Empty
    /\ ar_mask = Empty
    /\ attn_mask = Empty
    /\ prefix = NoPrefix

\* the logits a forward pass of the backbone may return for a batch: the
\* backbone is an external collaborator, so any rows
LogitRows == [Vocab -> 0 .. MaxLogit]

Logits == [Batch -> logit_rows]

\* the validity mask of an embedded batch whose valid positions are the
\* first len_[b] of each row
PrefixMaskOf(len_) == [b \in Batch |-> [i \in Range0(MaxSeqLen) |-> i < len_[b]]]

\* the prefix of the decode-loop specification: rows of 1, 2, ... valid positions
DefaultPrefixMask == PrefixMaskOf([b \in Batch |-> IF b < MaxSeqLen THEN b + 1 ELSE MaxSeqLen])

\* the prefix validity mask after left_to_right_align (one example)
AlignedMask(input_mask_) ==
    left_to_right_align(input_mask_, input_mask_,
                        [i \in DOMAIN input_mask_ |-> input_mask_]).input_mask

\* a plausible slip: the mask of a decode step stops before the step's slot
StepMaskExclusive(prefill_size_, prefix_start_b, step_, max_decoding_steps_) ==
    [n \in Range0(prefill_size_ + max_decoding_steps_) |->
        (n >= prefix_start_b) /\ (n < prefill_size_ + step_)]

\* mask of a decode step for one example:
\* (arange(prefill_size + max_decoding_steps) >= prefix_start)
\*  & (arange(prefill_size + max_decoding_steps) < prefill_size + step + 1)
StepMask(prefill_size_, prefix_start_b, step_, max_decoding_steps_) ==
    [n \in Range0(prefill_size_ + max_decoding_steps_) |->
        (n >= prefix_start_b) /\ (n < prefill_size_ + step_ + 1)]

\* jax.random.split(rng): the carried key and the key of this step
Split(key) == <<(2 * key + 1) % KeySpace, (2 * key + 2) % KeySpace>>

\* a plausible slip: the last of several maximal entries is taken
ArgMaxLast(row) ==
    CHOOSE v \in DOMAIN row :
        /\ \A w \in DOMAIN row : row[w] <= row[v]
        /\ \A w \in DOMAIN row : (w > v) => row[w] < row[v]

\* jnp.argmax(row, axis=-1): the first of several maximal entries
ArgMax(row) ==
    CHOOSE v \in DOMAIN row :
        /\ \A w \in DOMAIN row : row[w] <= row[v]
        /\ \A w \in DOMAIN row : (w < v) => row[w] < row[v]

\* the noise jax.random.categorical draws from the key for entry v of example b
Gumbel(key, b, v) == ((key + 1) * (v + 1) + b) % (MaxLogit + 2)

\* jax.random.categorical(key, logits): arg-max of the logits plus key noise
Categorical(key, b, row) == ArgMax([v \in DOMAIN row |-> row[v] + Gumbel(key, b, v)])

\* a plausible slip: the token is sampled whatever the temperature
SelectTokenAlwaysSample(temperature_, rng_step, b, row) ==
    IF temperature_ > 0
    THEN Categorical(rng_step, b, [v \in DOMAIN row |-> row[v] \div temperature_])
    ELSE Categorical(rng_step, b, row)

\* the jax.lax.cond of the step: sample when temperature > 0, else arg-max
SelectToken(temperature_, rng_step, b, row) ==
    IF temperature_ > 0
    THEN Categorical(rng_step, b, [v \in DOMAIN row |-> row[v] \div temperature_])
    ELSE ArgMax(row)

\* a plausible slip: a row that already holds end-of-sequence is not written
put_along_last_axis_frozen(arr, index, value) ==
    IF \E n \in DOMAIN arr : arr[n] = PALIGEMMA_EOS_TOKEN
    THEN arr
    ELSE [n \in DOMAIN arr |-> IF n = index THEN value ELSE arr[n]]

\* a plausible slip: the value fills the row from the index on
put_along_last_axis_from(arr, index, value) ==
    [n \in DOMAIN arr |-> IF n >= index THEN value ELSE arr[n]]

\* put_along_last_axis on one row: where(onehot(index), value, arr)
put_along_last_axis(arr, index, value) ==
    [n \in DOMAIN arr |-> IF n = index THEN value ELSE arr[n]]

\* a plausible slip: the step budget compared inclusively
cond_inclusive(all_eos_, step_, max_decoding_steps_) ==
    (~all_eos_) /\ (step_ <= max_decoding_steps_)

\* a plausible slip: the step budget left out of the loop condition
cond_no_budget(all_eos_, step_, max_decoding_steps_) == ~all_eos_

\* cond(carry): (~all_eos) & (step < max_decoding_steps)
cond(all_eos_, step_, max_decoding_steps_) ==
    (~all_eos_) /\ (step_ < max_decoding_steps_)

\* the decode state before the prefix forward pass
DecodeStart ==
    /\ last_logit = Empty
    /\ output_tokens = Empty
    /\ kv_cache = 0
    /\ all_eos = FALSE
    /\ step = 0
    /\ token = Empty
    /\ prefill_size = 0
    /\ prefill_len = Empty
    /\ prefix_start = Empty
    /\ prefix_positions = Empty
    /\ positions = Empty
    /\ decode_mask = Empty

\* the arguments of a sample_actions call, before the prefix forward pass
Init ==
    /\ pc = "prefill"
    /\ PrefixIdle
    /\ max_decoding_steps \in 0 .. MaxDecodingSteps
    /\ temperature \in -1 .. 1
    /\ rng \in Range0(KeySpace)
    /\ logit_rows = LogitRows
    /\ prefix_mask = DefaultPrefixMask
    /\ DecodeStart
    /\ LossIdle
    /\ TransformIdle

\* left_to_right_align of the prefix, the cache layout, the prefix forward
\* pass and the initial carry (rng, last_logit, output_tokens, kv_cache, False, 0)
Prefill ==
    /\ pc = "prefill"
    /\ pc' = "loop"
    /\ LET aligned == [b \in Batch |-> AlignedMask(prefix_mask[b])]
           size == Size(aligned[0])
           len_ == [b \in Batch |->
                      SumTo([i \in DOMAIN aligned[b] |-> IF aligned[b][i] THEN 1 ELSE 0],
                            size - 1)]
       IN /\ prefix_mask' = aligned
          /\ prefill_size' = size
          /\ prefill_len' = len_
          /\ prefix_start' = [b \in Batch |-> size - len_[b]]
          /\ prefix_positions' =
                [b \in Batch |->
                    [i \in DOMAIN aligned[b] |->
                        Cumsum([j \in DOMAIN aligned[b] |->
                                   IF aligned[b][j] THEN 1 ELSE 0])[i] - 1]]
    /\ last_logit' \in Logits
    /\ output_tokens' = [b \in Batch |-> [n \in Range0(max_decoding_steps) |-> 0]]
    /\ kv_cache' = 0
    /\ all_eos' = FALSE
    /\ step' = 0
    /\ UNCHANGED <<max_decoding_steps, temperature, rng, token, logit_rows,
                   positions, decode_mask, prefix_vars, loss_vars, transform_vars>>

\* step(carry), run by lax.while_loop while cond(carry) holds
Step ==
    /\ pc = "loop"
    /\ cond(all_eos, step, max_decoding_steps)
    /\ LET keys == Split(rng)
           rng_step == keys[2]
           tok == [b \in Batch |-> SelectToken(temperature, rng_step, b, last_logit[b])]
           has_eos == [b \in Batch |-> tok[b] = PALIGEMMA_EOS_TOKEN]
       IN /\ rng' = keys[1]
          /\ token' = tok
          /\ output_tokens' =
                [b \in Batch |-> put_along_last_axis(output_tokens[b], step, tok[b])]
          /\ all_eos' = (\A b \in Batch : has_eos[b])
    /\ positions' = [b \in Batch |-> prefill_len[b] + step + 1]
    /\ decode_mask' = [b \in Batch |->
                  StepMask(prefill_size, prefix_start[b], step, max_decoding_steps)]
    /\ last_logit' \in Logits
    /\ kv_cache' = kv_cache + 1
    /\ step' = step + 1
    /\ UNCHANGED <<pc, max_decoding_steps, temperature, logit_rows, prefix_mask,
                   prefill_size, prefill_len, prefix_start, prefix_positions,
                   prefix_vars, loss_vars, transform_vars>>

\* lax.while_loop ends when cond(carry) is false; output_tokens is returned
Exit ==
    /\ pc = "loop"
    /\ ~cond(all_eos, step, max_decoding_steps)
    /\ pc' = "done"
    /\ UNCHANGED <<prefix_vars, decode_vars, loss_vars, transform_vars>>

Next == Prefill \/ Step \/ Exit

Spec == Init /\ [][Next]_vars

\* rows of logits with one peak, at the end-of-sequence token or at the last token
PeakedRows ==
    {[v \in Vocab |-> IF v = peak THEN MaxLogit ELSE 0] :
        peak \in {PALIGEMMA_EOS_TOKEN, VocabSize - 1}}

\* a sample_actions call on a batch whose rows have any number of valid
\* prefix positions (a contiguous prefix of the embedded sequence), with a
\* backbone that always peaks at end-of-sequence or always at the last token
InitCache ==
    /\ pc = "prefill"
    /\ PrefixIdle
    /\ max_decoding_steps \in 0 .. MaxDecodingSteps
    /\ temperature \in 0 .. 1
    /\ rng = 0
    /\ logit_rows \in {{row} : row \in PeakedRows}
    /\ prefix_mask \in {PrefixMaskOf(len_) : len_ \in [Batch -> 0 .. MaxSeqLen]}
    /\ DecodeStart
    /\ LossIdle
    /\ TransformIdle

SpecCache == InitCache /\ [][Next]_vars

-----------------------------------------------------------------------------
(* Properties of the decode loop (Spec) *)

\* the arg-max of a row of logits is the end-of-sequence token
GreedyIsEos(row) ==
    /\ \A w \in DOMAIN row : row[w] <= row[PALIGEMMA_EOS_TOKEN]
    /\ \A w \in DOMAIN row : (w < PALIGEMMA_EOS_TOKEN) => row[w] < row[PALIGEMMA_EOS_TOKEN]

\* example b has the end-of-sequence token in one of the columns 0..n-1
EmittedEos(b, n) == \E s \in Range0(n) : output_tokens[b][s] = PALIGEMMA_EOS_TOKEN

\* C1: the loop takes another step exactly when the carried all-terminated
\* flag is false and the step counter is below max_decoding_steps, and ends
\* otherwise; so the counter never passes max_decoding_steps and the loop is
\* done after at most max_decoding_steps steps, end-of-sequence or not.
C1_LoopBound ==
    /\ step <= max_decoding_steps
    /\ pc = "loop" =>
          /\ (ENABLED Step) <=> ((~all_eos) /\ step < max_decoding_steps)
          /\ (ENABLED Exit) <=> ~((~all_eos) /\ step < max_decoding_steps)
    /\ pc = "done" => (all_eos \/ step = max_decoding_steps)

C1_Witness ==
    /\ pc = "done"
    /\ max_decoding_steps = MaxDecodingSteps
    /\ step = max_decoding_steps
    /\ ~all_eos
    /\ \A b \in Batch : ~EmittedEos(b, step)

\* C2 as claimed: after a step, the all-terminated flag is true iff every
\* example has produced end-of-sequence at this step or at an earlier one.
C2_FlagIsEverEos ==
    (pc \in {"loop", "done"} /\ step > 0) =>
        (all_eos <=> \A b \in Batch : EmittedEos(b, step))

\* C3: when every example's greedy choice at step 0 is end-of-sequence
\* (temperature 0, max_decoding_steps >= 1), the step writes 1 into column 0
\* of every row, leaves the later columns at 0 and sets the flag; the loop
\* then ends with the counter at 1 and the buffer as it is.
C3_EosAtStepZero ==
    [][/\ (/\ pc = "loop" /\ step = 0 /\ temperature = 0
           /\ max_decoding_steps >= 1
           /\ \A b \in Batch : GreedyIsEos(last_logit[b]))
          => (/\ pc' = "loop" /\ step' = 1 /\ all_eos'
              /\ \A b \in Batch : output_tokens'[b] =
                    [n \in Range0(max_decoding_steps) |->
                        IF n = 0 THEN PALIGEMMA_EOS_TOKEN ELSE 0])
       /\ (pc = "loop" /\ step = 1 /\ all_eos)
          => (pc' = "done" /\ step' = 1 /\ output_tokens' = output_tokens)
      ]_vars

C3_Witness ==
    /\ pc = "done"
    /\ temperature = 0
    /\ max_decoding_steps = MaxDecodingSteps
    /\ step = 1
    /\ \A b \in Batch : output_tokens[b] =
          [n \in Range0(max_decoding_steps) |-> IF n = 0 THEN PALIGEMMA_EOS_TOKEN ELSE 0]

\* C4: an example that emitted end-of-sequence at an earlier step still gets,
\* at every later step the loop runs, the token selected for it written into
\* that step's column; every example of the batch takes part in every step.
C4_FinishedExampleStillWritten ==
    (pc \in {"loop", "done"} /\ step > 0) =>
        /\ DOMAIN token = Batch
        /\ \A b \in Batch :
              EmittedEos(b, step - 1) => output_tokens[b][step - 1] = token[b]

C4_Witness ==
    /\ pc = "loop"
    /\ step = 2
    /\ \E b \in Batch :
          /\ output_tokens[b][0] = PALIGEMMA_EOS_TOKEN
          /\ token[b] \notin {0, PALIGEMMA_EOS_TOKEN}
          /\ output_tokens[b][1] = token[b]

-----------------------------------------------------------------------------
(* Properties of make_attn_mask (SpecAlign) *)

Positions == DOMAIN input_mask

\* the validity mask is true on exactly the first L positions
IsValidPrefix(mask, L) == \A i \in DOMAIN mask : mask[i] = (i < L)

\* C5: for every validity mask and every autoregressive-flag mask over {0,1},
\* the attention mask has mask[i,i] = valid[i], is symmetric between two
\* positions with the same running sum of the flag, and never lets a
\* position attend to a later position whose flag is 1.
C5_MaskValidity ==
    pc \in {"align", "aligned"} =>
        LET cumsum == Cumsum(ar_mask) IN
        /\ \A i \in Positions : attn_mask[i][i] = input_mask[i]
        /\ \A i, j \in Positions :
              cumsum[i] = cumsum[j] => attn_mask[i][j] = attn_mask[j][i]
        /\ \A i, j \in Positions :
              (j > i /\ ar_mask[j] = 1) => ~attn_mask[i][j]

C5_Witness ==
    /\ pc = "align"
    /\ \E i, j \in Positions :
          /\ i < j /\ input_mask[i] /\ input_mask[j] /\ ar_mask[j] = 1
          /\ ~attn_mask[i][j] /\ attn_mask[j][i]
    /\ \E i, j \in Positions :
          i < j /\ input_mask[i] /\ input_mask[j] /\ ar_mask[j] = 0 /\ attn_mask[i][j]
    /\ \E i \in Positions : ~input_mask[i]

\* C6 as claimed: every two valid flag-0 positions attend to each other in
\* both directions, wherever they lie, and every valid flag-0 position is
\* attended to by every valid position after it.
C6_AllNonCausalMutual ==
    pc \in {"align", "aligned"} =>
        /\ \A i, j \in Positions :
              (input_mask[i] /\ input_mask[j] /\ ar_mask[i] = 0 /\ ar_mask[j] = 0)
                  => (attn_mask[i][j] /\ attn_mask[j][i])
        /\ \A i, j \in Positions :
              (i > j /\ input_mask[i] /\ input_mask[j] /\ ar_mask[j] = 0)
                  => attn_mask[i][j]

\* C6 (amended): two valid flag-0 positions attend to each other in both
\* directions when no flag-1 position lies between them; every valid flag-0
\* position is attended to by every valid position after it.
C6_NonCausalWithinBlock ==
    pc \in {"align", "aligned"} =>
        /\ \A i, j \in Positions :
              (/\ i <= j /\ input_mask[i] /\ input_mask[j]
               /\ ar_mask[i] = 0 /\ ar_mask[j] = 0
               /\ \A k \in Positions : (i < k /\ k < j) => ar_mask[k] = 0)
                  => (attn_mask[i][j] /\ attn_mask[j][i])
        /\ \A i, j \in Positions :
              (i > j /\ input_mask[i] /\ input_mask[j] /\ ar_mask[j] = 0)
                  => attn_mask[i][j]

C6_Witness ==
    /\ pc = "align"
    /\ \E i, j, k \in Positions :
          /\ i < k /\ k < j
          /\ input_mask[i] /\ input_mask[j] /\ input_mask[k]
          /\ ar_mask[i] = 0 /\ ar_mask[k] = 1 /\ ar_mask[j] = 0
          /\ attn_mask[j][i] /\ attn_mask[k][i] /\ ~attn_mask[i][j]
    /\ \E i, j \in Positions :
          /\ i < j /\ input_mask[i] /\ input_mask[j]
          /\ ar_mask[i] = 0 /\ ar_mask[j] = 0
          /\ attn_mask[i][j] /\ attn_mask[j][i]

-----------------------------------------------------------------------------
(* Properties of left_to_right_align (SpecAlign) *)

\* C7: a validity mask true on the first L positions (1 <= L <= N) comes out
\* true on exactly the last L positions; input element k < L is at output
\* position N-L+k; attention entry (i,j) of the valid block is at output
\* entry (N-L+i, N-L+j).
C7_RightAligned ==
    pc = "aligned" =>
        LET N == Size(input_mask) IN
        \A L \in 1 .. N :
            IsValidPrefix(input_mask, L) =>
                /\ \A p \in Range0(N) : prefix.input_mask[p] = (p >= N - L)
                /\ \A k \in Range0(L) : prefix.x[N - L + k] = token_embeddings[k]
                /\ \A i, j \in Range0(L) :
                      prefix.attn_mask[N - L + i][N - L + j] = attn_mask[i][j]

C7_Witness ==
    /\ pc = "aligned"
    /\ Size(input_mask) >= 3
    /\ IsValidPrefix(input_mask, 2)
    /\ ar_mask[1] = 1
    /\ prefix.x[Size(input_mask) - 1] = token_embeddings[1]
    /\ prefix.attn_mask[Size(input_mask) - 1][Size(input_mask) - 2]
    /\ ~prefix.attn_mask[Size(input_mask) - 2][Size(input_mask) - 1]

\* C8 as claimed: for a validity mask true on the first L positions, L in
\* 0..N, the three structures come out shifted by L; with no valid position
\* (L = 0) they come out unchanged.
C8_ShiftIsRunLength ==
    pc = "aligned" =>
        LET N == Size(input_mask) IN
        \A L \in 0 .. N :
            IsValidPrefix(input_mask, L) =>
                /\ prefix.x = Roll(token_embeddings, -L)
                /\ prefix.input_mask = Roll(input_mask, -L)
                /\ prefix.attn_mask = Roll2(attn_mask, -L)

-----------------------------------------------------------------------------
(* Properties of the sequence embedders (SpecEmbed) *)

\* C9 as claimed: when the prompt's validity mask is a contiguous prefix, the
\* embedder's validity mask is a contiguous prefix too, whatever the
\* per-camera validity flags.
C9_EmbedderMaskIsPrefix ==
    (/\ pc \in {"mask", "align", "aligned"}
     /\ \E L \in 0 .. MaxTokenLen : IsValidPrefix(obs.tokenized_prompt_mask, L))
        => \E L \in 0 .. Size(input_mask) : IsValidPrefix(input_mask, L)

\* the action span an embedder call appends
ActionSpan ==
    IF embedder # "embed_inputs" /\ use_action_input /\ ~actions_in.is_none
    THEN ActionHorizon ELSE 0

\* C10: embeddings, validity mask and autoregressive mask have the common
\* length image_segment_length * num_images + action span + max_token_len,
\* laid out as images (in camera order), action span, prompt.
C10_SegmentLayout ==
    pc \in {"mask", "align", "aligned"} =>
        LET num_images == Size(obs.images)
            img == ImageSegmentLength * num_images
            total == img + ActionSpan + MaxTokenLen
        IN
        /\ Size(token_embeddings) = total
        /\ Size(input_mask) = total
        /\ Size(ar_mask) = total
        /\ \A p \in Range0(total) :
              IF p < img
              THEN /\ token_embeddings[p] =
                        Emb("img", p \div ImageSegmentLength, p % ImageSegmentLength)
                   /\ input_mask[p] = obs.image_masks[p \div ImageSegmentLength]
                   /\ ar_mask[p] = 0
              ELSE IF p < img + ActionSpan
              THEN /\ token_embeddings[p] = Emb("act", 0, p - img)
                   /\ input_mask[p]
                   /\ ar_mask[p] = 0
              ELSE LET k == p - img - ActionSpan IN
                   /\ token_embeddings[p] = Emb("tok", 0, obs.tokenized_prompt[k])
                   /\ input_mask[p] = obs.tokenized_prompt_mask[k]
                   /\ ar_mask[p] = obs.token_ar_mask[k]

C10_Witness ==
    /\ pc = "mask"
    /\ embedder = "embed_inputs_with_current_action"
    /\ Size(obs.images) = MaxImages
    /\ ~obs.image_masks[0]
    /\ ActionSpan = ActionHorizon
    /\ Size(token_embeddings) = ImageSegmentLength * MaxImages + ActionHorizon + MaxTokenLen
    /\ token_embeddings[ImageSegmentLength * MaxImages].seg = "act"

-----------------------------------------------------------------------------
(* Further properties of the decode loop (Spec) *)

\* C19: a decode step at counter s writes the selected token into column s
\* of every row and leaves every other column as it was; so at any point the
\* columns from the counter on still hold their initial 0, and after n steps
\* columns 0..n-1 hold the tokens of steps 0..n-1 in order.
C19_StepWritesOwnColumn ==
    /\ [][(pc = "loop" /\ step' = step + 1) =>
             \A b \in Batch :
                /\ DOMAIN output_tokens'[b] = Range0(max_decoding_steps)
                /\ output_tokens'[b][step] = token'[b]
                /\ \A n \in Range0(max_decoding_steps) :
                      n # step => output_tokens'[b][n] = output_tokens[b][n]
         ]_vars
    /\ [](pc \in {"loop", "done"} =>
             \A b \in Batch : \A n \in Range0(max_decoding_steps) :
                n >= step => output_tokens[b][n] = 0)

C19_Witness ==
    /\ pc = "done"
    /\ max_decoding_steps = MaxDecodingSteps
    /\ step = 2
    /\ \A b \in Batch :
          /\ output_tokens[b][0] = 2
          /\ output_tokens[b][1] = PALIGEMMA_EOS_TOKEN
          /\ output_tokens[b][2] = 0

-----------------------------------------------------------------------------
(* Properties of the cache layout of the decode loop (SpecCache) *)

\* C20: with a right-aligned prefix of prefill_len valid positions in a
\* buffer of width prefill_size, the mask built by decode step s lets the new
\* token attend to exactly the cache positions prefill_size - prefill_len ..
\* prefill_size + s: every valid prefix position, the slots of the steps
\* 0..s, no padding position and no slot of a later step.
C20_StepMaskRange ==
    (pc \in {"loop", "done"} /\ step > 0) =>
        \A b \in Batch :
            LET s == step - 1 IN
            /\ DOMAIN decode_mask[b] = Range0(prefill_size + max_decoding_steps)
            /\ \A n \in DOMAIN decode_mask[b] :
                  decode_mask[b][n] <=>
                     (prefill_size - prefill_len[b] <= n /\ n <= prefill_size + s)
            /\ \A n \in Range0(prefill_size) : decode_mask[b][n] <=> prefix_mask[b][n]
            /\ \A t \in Range0(max_decoding_steps) :
                  decode_mask[b][prefill_size + t] <=> (t <= s)

C20_Witness ==
    /\ pc = "loop"
    /\ max_decoding_steps = MaxDecodingSteps
    /\ step = 2
    /\ prefill_len[0] = 2
    /\ prefill_len[1] = prefill_size
    /\ {n \in DOMAIN decode_mask[0] : decode_mask[0][n]} = (prefill_size - 2) .. (prefill_size + 1)
    /\ {n \in DOMAIN decode_mask[1] : decode_mask[1][n]} = 0 .. (prefill_size + 1)

-----------------------------------------------------------------------------
(* compute_loss of both variants and the entry of sample_actions *)

\* a plausible slip: the denominator is not clipped
ClipNone(x, lo) == x

\* jnp.clip(x, lo)
Clip(x, lo) == IF x < lo THEN lo ELSE x

\* jnp.sum(a, axis=-1)
Sum(a) == SumTo(a, Size(a) - 1)

\* -log_softmax(logit)[target]: the cross-entropy of one position, a positive
\* number fixed by the logit and the target
CeAt(logit, target) == 1 + ((logit.at.k + target) % MaxCe)

\* sum over the vocabulary of teacher_probs * (log(teacher_probs + 1e-8)
\* - log(student_probs + 1e-8)): 0 for equal logits, else a positive number
KlAt(student, teacher) ==
    IF student = teacher THEN 0 ELSE 1 + ((student.pos + teacher.pos) % MaxKl)

\* jnp.sum(values * loss_mask, axis=-1) / jnp.clip(jnp.sum(loss_mask, -1), 1)
MaskedMean(values, loss_mask) ==
    Quotient(Sum([k \in DOMAIN values |-> IF loss_mask[k] THEN values[k] ELSE 0]),
             Clip(Sum([k \in DOMAIN loss_mask |-> IF loss_mask[k] THEN 1 ELSE 0]), 1))

\* a plausible slip: the KL term added without its weight
CombineLossUnweighted(ce_loss, kl_loss, kl_weight) ==
    Quotient(ce_loss.num * kl_loss.den + kl_loss.num * ce_loss.den,
             ce_loss.den * kl_loss.den)

\* ce_loss + self.config.kl_weight * kl_loss
CombineLoss(ce_loss, kl_loss, kl_weight) ==
    Quotient(ce_loss.num * kl_loss.den + kl_weight * kl_loss.num * ce_loss.den,
             ce_loss.den * kl_loss.den)

\* the shape left by a reduction over the last axis
SumLastAxis(shape) == SubSeq(shape, 1, Len(shape) - 1)

\* the three asserts of the embedders fail
EmbedFails(obs_) ==
    \/ IsNone(obs_, "tokenized_prompt")
    \/ IsNone(obs_, "tokenized_prompt_mask")
    \/ IsNone(obs_, "token_ar_mask")

Raised(fn) == [NoResult EXCEPT !.fn = fn, !.raised = TRUE]

\* Pi0FASTObsDistilled.compute_loss
DistilledComputeLoss(config_, teacher_model_, observation_, prev_observation_, prev_actions) ==
    LET student_obs == IF prev_observation_.is_none THEN observation_
                       ELSE prev_observation_.value
        teacher_obs == observation_
    IN
    IF \/ EmbedFails(student_obs)
       \/ IsNone(student_obs, "token_loss_mask")
       \/ (config_.use_teacher_model /\ EmbedFails(teacher_obs))
    THEN Raised("distilled.compute_loss")
    ELSE
    LET student_logits == compute_student_logits(student_obs, prev_actions,
                                                 config_.use_action_input)
        targets == DropFirst(student_obs.tokenized_prompt)
        loss_mask == DropFirst(student_obs.token_loss_mask)
        ce_loss == MaskedMean([k \in DOMAIN targets |-> CeAt(student_logits[k], targets[k])],
                              loss_mask)
        teacher_logits == compute_teacher_logits(teacher_model_, teacher_obs)
        kl_div == [k \in DOMAIN student_logits |-> KlAt(student_logits[k], teacher_logits[k])]
        kl_loss == MaskedMean(kl_div, loss_mask)
    IN
    IF config_.use_teacher_model
    THEN [fn |-> "distilled.compute_loss", raised |-> FALSE,
          student_logits |-> student_logits, teacher_logits |-> teacher_logits,
          teacher_called |-> TRUE, targets |-> targets, loss_mask |-> loss_mask,
          ce_loss |-> ce_loss, kl_loss |-> kl_loss,
          total_loss |-> CombineLoss(ce_loss, kl_loss, config_.kl_weight),
          shape |-> SumLastAxis(<<Size(targets)>>)]
    ELSE [fn |-> "distilled.compute_loss", raised |-> FALSE,
          student_logits |-> student_logits, teacher_logits |-> Empty,
          teacher_called |-> FALSE, targets |-> targets, loss_mask |-> loss_mask,
          ce_loss |-> ce_loss, kl_loss |-> Quotient(0, 1),
          total_loss |-> ce_loss,
          shape |-> SumLastAxis(<<Size(targets)>>)]

\* Pi0FASTPredictive.compute_loss
PredictiveComputeLoss(config_, observation_, current_actions) ==
    IF EmbedFails(observation_) \/ IsNone(observation_, "token_loss_mask")
    THEN Raised("predictive.compute_loss")
    ELSE
    LET e == embed_inputs_with_current_action(observation_, current_actions,
                                              config_.use_action_input)
        attn_mask_ == make_attn_mask(e.input_mask, e.ar_mask)
        targets == DropFirst(observation_.tokenized_prompt)
        pre_logits == Llm("self", DropLast(e.token_embeddings), DropLast2(attn_mask_))
        logits == LastN(pre_logits, Size(targets))
        loss_mask == DropFirst(observation_.token_loss_mask)
        loss == MaskedMean([k \in DOMAIN targets |-> CeAt(logits[k], targets[k])],
                           loss_mask)
    IN [fn |-> "predictive.compute_loss", raised |-> FALSE,
        student_logits |-> logits, teacher_logits |-> Empty,
        teacher_called |-> FALSE, targets |-> targets, loss_mask |-> loss_mask,
        ce_loss |-> loss, kl_loss |-> Quotient(0, 1), total_loss |-> loss,
        shape |-> SumLastAxis(<<Size(targets)>>)]

\* __init__: a separate teacher is built when a checkpoint is configured
TeacherModelOf(config_) ==
    IF config_.use_teacher_model /\ config_.teacher_checkpoint THEN "Pi0FAST" ELSE "None"

\* the configurations tried: kl_weight 1 or MaxKlWeight (it is read only
\* under use_teacher_model)
LossConfigs ==
    {c \in [use_teacher_model : BOOLEAN, teacher_checkpoint : BOOLEAN,
            kl_weight : {1, MaxKlWeight}, use_action_input : BOOLEAN] :
        c.use_teacher_model \/ c.kl_weight = 1}

\* the current observations tried: no camera or MaxImages cameras (every
\* count is tried on the embedders under SpecEmbed), every prompt, ar mask of
\* ArMasks and loss mask; every camera and prompt position valid
LossObservations ==
    UNION {[images : {[c \in Range0(n) |-> c]},
            image_masks : {[c \in Range0(n) |-> TRUE]},
            tokenized_prompt : Prompts,
            tokenized_prompt_mask : {[p \in Range0(MaxTokenLen) |-> TRUE]},
            token_ar_mask : ArMasks,
            token_loss_mask : [Range0(MaxTokenLen) -> BOOLEAN],
            absent : {{}}] : n \in {0, MaxImages}}

\* a previous observation: n cameras, the second prompt, a causal prompt and
\* a loss mask that is all on or all off
PreviousObservation(n, on) ==
    [images |-> [c \in Range0(n) |-> c],
     image_masks |-> [c \in Range0(n) |-> TRUE],
     tokenized_prompt |-> [p \in Range0(MaxTokenLen) |-> (p + 1) % VocabSize],
     tokenized_prompt_mask |-> [p \in Range0(MaxTokenLen) |-> TRUE],
     token_ar_mask |-> [p \in Range0(MaxTokenLen) |-> 1],
     token_loss_mask |-> [p \in Range0(MaxTokenLen) |-> on],
     absent |-> {}]

PrevObservations ==
    {NoObservation, SomeObservation(PreviousObservation(0, FALSE)),
     SomeObservation(PreviousObservation(MaxImages, TRUE))}

RequiredFields ==
    {"tokenized_prompt", "tokenized_prompt_mask", "token_ar_mask", "token_loss_mask"}

\* the observation with one field None
Lacking(obs_, field) == [obs_ EXCEPT !.absent = {field}, ![field] = Empty]

\* the observations tried with a field missing
MaybeLacking(obs_) == {obs_} \cup {Lacking(obs_, field) : field \in RequiredFields}

\* a constructed model and the arguments of a call: complete observations,
\* or observations one of which lacks a field
InitLoss ==
    /\ pc = "call"
    /\ PrefixIdle
    /\ DecodeIdle
    /\ config \in LossConfigs
    /\ teacher_model = TeacherModelOf(config)
    /\ call_actions \in {NoActions, SomeActions}
    /\ result = NoResult
    /\ TransformIdle
    /\ \/ /\ observation \in LossObservations
          /\ prev_observation \in PrevObservations
       \/ /\ observation \in MaybeLacking(PreviousObservation(1, TRUE))
          /\ prev_observation \in
                {NoObservation} \cup
                {SomeObservation(o) : o \in MaybeLacking(PreviousObservation(1, FALSE))}
          /\ \/ observation.absent # {}
             \/ prev_observation.value.absent # {}

Returns(res) ==
    /\ pc = "call"
    /\ result' = res
    /\ pc' = IF res.raised THEN "error" ELSE "returned"
    /\ UNCHANGED <<prefix_vars, decode_vars, config, teacher_model, observation,
                   prev_observation, call_actions, transform_vars>>

ComputeLossDistilled ==
    Returns(DistilledComputeLoss(config, teacher_model, observation,
                                 prev_observation, call_actions))

ComputeLossPredictive ==
    Returns(PredictiveComputeLoss(config, observation, call_actions))

\* sample_actions up to the embedder's asserts; the call goes on to the
\* prefix stage when they hold
SampleActionsEntry ==
    /\ pc = "call"
    /\ result' = IF EmbedFails(observation) THEN Raised("sample_actions")
                 ELSE [NoResult EXCEPT !.fn = "sample_actions"]
    /\ pc' = IF EmbedFails(observation) THEN "error" ELSE "prefix"
    /\ UNCHANGED <<prefix_vars, decode_vars, config, teacher_model, observation,
                   prev_observation, call_actions, transform_vars>>

NextLoss == ComputeLossDistilled \/ ComputeLossPredictive \/ SampleActionsEntry

SpecLoss == InitLoss /\ [][NextLoss]_vars

-----------------------------------------------------------------------------
(* Properties of compute_loss (SpecLoss) *)

LossFns == {"predictive.compute_loss", "distilled.compute_loss"}

\* the number of positions the applied loss mask keeps
MaskedIn(loss_mask) == Cardinality({k \in DOMAIN loss_mask : loss_mask[k]})

\* C11: the masked sums of the cross-entropy and of the KL term are divided
\* by max(1, number of masked-in positions), never by 0; when the loss mask
\* (first position dropped) is all zeros the loss of the example is exactly 0.
C11_FullyMaskedLossIsZero ==
    (pc = "returned" /\ result.fn \in LossFns) =>
        LET count == MaskedIn(result.loss_mask)
            denominator == IF count > 1 THEN count ELSE 1
        IN /\ result.ce_loss.den = denominator
           /\ result.teacher_called => result.kl_loss.den = denominator
           /\ result.total_loss.den >= 1
           /\ count = 0 =>
                 /\ result.ce_loss.num = 0
                 /\ result.kl_loss.num = 0
                 /\ result.total_loss.num = 0

C11_Witness ==
    /\ pc = "returned"
    /\ result.fn = "distilled.compute_loss"
    /\ result.teacher_called
    /\ \A k \in DOMAIN result.loss_mask : ~result.loss_mask[k]
    /\ \E k \in DOMAIN result.loss_mask :
          KlAt(result.student_logits[k], result.teacher_logits[k]) > 0
    /\ result.total_loss = Quotient(0, 1)

\* C12 as claimed: when the distillation compute_loss is given a previous
\* observation, the cross-entropy targets and the loss mask are those of the
\* current observation (first position dropped).
C12_TargetsFromCurrentObservation ==
    (/\ pc = "returned"
     /\ result.fn = "distilled.compute_loss"
     /\ ~prev_observation.is_none) =>
        /\ result.targets = DropFirst(observation.tokenized_prompt)
        /\ result.loss_mask = DropFirst(observation.token_loss_mask)

\* C13 as claimed: with use_teacher_model true and a teacher checkpoint
\* configured, the model is in self-distillation: no separate teacher is
\* held and the teacher logits are those of the model's own backbone.
C13_CheckpointFallsBackToSelf ==
    (config.use_teacher_model /\ config.teacher_checkpoint) =>
        /\ teacher_model = "None"
        /\ (pc = "returned" /\ result.fn = "distilled.compute_loss") =>
              \A k \in DOMAIN result.teacher_logits :
                 result.teacher_logits[k].model = "self"

\* C14: with no teacher checkpoint configured, the teacher logits are the
\* outputs of the model's own backbone on embed_inputs(observation) under
\* make_attn_mask, at the last max_token_len - 1 positions of the forward
\* pass (which runs on the sequence without its last position); no separate
\* teacher is held.
C14_SelfDistillationLogits ==
    (/\ pc = "returned"
     /\ result.fn = "distilled.compute_loss"
     /\ config.use_teacher_model
     /\ ~config.teacher_checkpoint) =>
        LET e == embed_inputs(observation)
            S == Size(e.token_embeddings)
            attn == make_attn_mask(e.input_mask, e.ar_mask)
        IN /\ teacher_model = "None"
           /\ DOMAIN result.teacher_logits = Range0(MaxTokenLen - 1)
           /\ \A k \in Range0(MaxTokenLen - 1) :
                 LET p == S - MaxTokenLen + k IN
                 result.teacher_logits[k] =
                    [model |-> "self", pos |-> p, at |-> e.token_embeddings[p],
                     sees |-> {<<j, e.token_embeddings[j]>> :
                                  j \in {i \in Range0(S - 1) : attn[p][i]}}]

C14_Witness ==
    /\ pc = "returned"
    /\ result.fn = "distilled.compute_loss"
    /\ config.use_teacher_model
    /\ ~config.teacher_checkpoint
    /\ Size(observation.images) = MaxImages
    /\ \A p \in Range0(MaxTokenLen) : observation.token_ar_mask[p] = 0
    /\ ~prev_observation.is_none
    /\ result.teacher_logits # result.student_logits

\* C15: the distillation compute_loss returns ce_loss + kl_weight * kl_loss
\* when use_teacher_model is true, the KL term summed over the positions the
\* loss mask keeps and divided by the same denominator as the cross-entropy;
\* when it is false the result is ce_loss alone and no teacher logits are
\* computed.
C15_TotalLoss ==
    (pc = "returned" /\ result.fn = "distilled.compute_loss") =>
        IF config.use_teacher_model
        THEN /\ result.teacher_called
             /\ result.kl_loss.num =
                   Sum([k \in DOMAIN result.loss_mask |->
                           IF result.loss_mask[k]
                           THEN KlAt(result.student_logits[k], result.teacher_logits[k])
                           ELSE 0])
             /\ result.kl_loss.den = result.ce_loss.den
             /\ result.total_loss.num * result.ce_loss.den * result.kl_loss.den =
                   (result.ce_loss.num * result.kl_loss.den
                      + config.kl_weight * result.kl_loss.num * result.ce_loss.den)
                   * result.total_loss.den
        ELSE /\ ~result.teacher_called
             /\ result.teacher_logits = Empty
             /\ result.total_loss = result.ce_loss

C15_Witness ==
    /\ pc = "returned"
    /\ result.fn = "distilled.compute_loss"
    /\ config.use_teacher_model
    /\ config.kl_weight = MaxKlWeight
    /\ MaskedIn(result.loss_mask) = MaxTokenLen - 1
    /\ result.ce_loss.num > 0
    /\ result.kl_loss.num > 0

\* C16 as claimed: the predictive compute_loss returns, for each example, one
\* value per position of the action horizon; the distillation compute_loss
\* returns one scalar per example.
C16_LossShapes ==
    pc = "returned" =>
        /\ result.fn = "predictive.compute_loss" => result.shape = <<ActionHorizon>>
        /\ result.fn = "distilled.compute_loss" => result.shape = << >>

\* C17 as claimed: a call given an observation that lacks a required field
\* ends in an error without a result: compute_loss when tokenized prompt,
\* prompt mask, ar mask or loss mask is absent, sample_actions when
\* tokenized prompt, prompt mask or ar mask is absent.
C17_MissingFieldRaises ==
    /\ (result.fn \in LossFns /\ observation.absent # {}) =>
          (pc = "error" /\ result.raised)
    /\ (result.fn \in LossFns /\ prev_observation.value.absent # {}) =>
          (pc = "error" /\ result.raised)
    /\ (result.fn = "sample_actions" /\ EmbedFails(observation)) =>
          (pc = "error" /\ result.raised)
    /\ pc = "error" => (result.total_loss = Quotient(0, 1) /\ result.targets = Empty)

-----------------------------------------------------------------------------
(* ObservationDistillationTransform (libero_obs_distillation_policy.py) *)

\* the values of a record: numpy arrays (shape, and v = 0 for an array of
\* zeros), values that are not arrays, and nested records
Array(shape, v) == [kind |-> "array", shape |-> shape, v |-> v, items |-> Empty]

Scalar(kind, v) == [kind |-> kind, shape |-> << >>, v |-> v, items |-> Empty]

Dict(items) == [kind |-> "dict", shape |-> << >>, v |-> 0, items |-> items]

\* np.zeros_like(v)
ZerosLike(value) == Array(value.shape, 0)

\* isinstance(v, np.ndarray)
IsArray(value) == value.kind = "array"

\* result[key] = value
Put(d, key, value) == [k \in DOMAIN d \cup {key} |-> IF k = key THEN value ELSE d[k]]

\* data.get("timestep", 0)
Timestep(data_) == IF "timestep" \in DOMAIN data_ THEN data_["timestep"].v ELSE 0

\* trajectory["observations"][t] and trajectory["actions"][t]
TrajectoryObservation(t) == Dict([k \in {"state"} |-> Array(<<ActionDim>>, 10 + t)])

TrajectoryActions(t) == Array(<<ActionHorizon, ActionDim>>, 10 + t)

\* a plausible slip: the actions are left out of the zeroing
ZeroedRecordButActions(data_) ==
    [k \in DOMAIN data_ |->
        IF IsArray(data_[k]) /\ k # "actions" THEN ZerosLike(data_[k]) ELSE data_[k]]

\* {k: np.zeros_like(v) if isinstance(v, np.ndarray) else v for k, v in data.items()}
ZeroedRecord(data_) ==
    [k \in DOMAIN data_ |-> IF IsArray(data_[k]) THEN ZerosLike(data_[k]) ELSE data_[k]]

\* the zero previous action: the shape of the actions when they have a
\* horizon axis, else np.zeros(self.action_dim)
ZeroPrevActions(data_) ==
    IF "actions" \in DOMAIN data_ /\ Len(data_["actions"].shape) = 2
    THEN ZerosLike(data_["actions"])
    ELSE Array(<<ActionDim>>, 0)

\* ObservationDistillationTransform.__call__: the record returned
ObservationDistillationTransform(data_, handle_first_timestep_) ==
    LET result_ == data_ IN
    IF "trajectory_data" \in DOMAIN data_ /\ Timestep(data_) > 0
    THEN LET timestep == data_["timestep"].v IN
         Put(Put(result_, "prev_observation", TrajectoryObservation(timestep - 1)),
             "prev_actions", TrajectoryActions(timestep - 1))
    ELSE IF handle_first_timestep_ = "duplicate"
    THEN Put(Put(result_, "prev_observation",
                 IF "observation" \in DOMAIN data_ THEN data_["observation"]
                 ELSE Dict(data_)),
             "prev_actions", ZeroPrevActions(data_))
    ELSE IF handle_first_timestep_ = "zero"
    THEN Put(Put(result_, "prev_observation", Dict(ZeroedRecord(data_))),
             "prev_actions", ZeroPrevActions(data_))
    ELSE IF handle_first_timestep_ = "skip"
    THEN Put(result_, "skip_sample", Scalar("bool", 1))
    ELSE result_

\* an input record: a state, and optionally an image, actions (with or
\* without a horizon axis), a prompt, a timestep, trajectory data and a
\* nested observation
MakeData(image, actions_, prompt, timestep, trajectory, nested) ==
    LET keys == {"state"}
                \cup (IF image THEN {"image"} ELSE {})
                \cup (IF actions_ > 0 THEN {"actions"} ELSE {})
                \cup (IF prompt THEN {"prompt"} ELSE {})
                \cup (IF timestep >= 0 THEN {"timestep"} ELSE {})
                \cup (IF trajectory THEN {"trajectory_data"} ELSE {})
                \cup (IF nested THEN {"observation"} ELSE {})
    IN [k \in keys |->
          CASE k = "state" -> Array(<<ActionDim>>, 1)
            [] k = "image" -> Array(<<ImageSegmentLength, ImageSegmentLength>>, 2)
            [] k = "actions" ->
                 IF actions_ = 1 THEN Array(<<ActionDim>>, 3)
                 ELSE Array(<<ActionHorizon, ActionDim>>, 3)
            [] k = "prompt" -> Scalar("str", 4)
            [] k = "timestep" -> Scalar("int", timestep)
            [] k = "trajectory_data" -> Scalar("trajectory", 5)
            [] k = "observation" -> Dict([j \in {"state"} |-> Array(<<ActionDim>>, 6)])]

DataRecords ==
    {MakeData(image, actions_, prompt, timestep, trajectory, nested) :
        image \in BOOLEAN, actions_ \in 0 .. 2, prompt \in BOOLEAN,
        timestep \in -1 .. MaxTimestep, trajectory \in BOOLEAN, nested \in BOOLEAN}

InitTransform ==
    /\ pc = "input"
    /\ PrefixIdle
    /\ DecodeIdle
    /\ LossIdle
    /\ handle_first_timestep \in {"duplicate", "zero", "skip"}
    /\ data \in DataRecords
    /\ transform_result = Empty
    /\ inputs = Empty

\* transform(data): the input record is copied, the copy is returned
Transform ==
    /\ pc = "input"
    /\ pc' = "transformed"
    /\ transform_result' = ObservationDistillationTransform(data, handle_first_timestep)
    /\ UNCHANGED <<data, handle_first_timestep, inputs, prefix_vars, decode_vars,
                   loss_vars>>

\* d.get(key, default)
Get(d, key, default) == IF key \in DOMAIN d THEN d[key] ELSE default

\* transforms.pad_to_dim(x, target_dim): the last axis is padded with zeros
\* up to target_dim; an axis already that wide is left alone
pad_to_dim(x, target_dim) ==
    Array([i \in DOMAIN x.shape |->
              IF i = Len(x.shape) /\ x.shape[i] < target_dim
              THEN target_dim ELSE x.shape[i]],
          x.v)

\* _parse_image: a channel-first image is rearranged "c h w -> h w c" (the
\* scaling of a floating image to uint8 keeps shape and content tag)
_parse_image(image) ==
    IF Len(image.shape) = 3 /\ image.shape[1] = RgbChannels
    THEN Array(<<image.shape[2], image.shape[3], image.shape[1]>>, image.v)
    ELSE image

\* the state and the two camera images read from a record, with the
\* defaults of data.get
ObservationOf(d, action_dim) ==
    [state |-> pad_to_dim(Get(d, "state",
                              Get(d, "observation/state", Array(<<DefaultStateDim>>, 0))),
                          action_dim),
     base_image |-> _parse_image(
         Get(d, "image",
             Get(d, "observation/image",
                 Array(<<DefaultImageSize, DefaultImageSize, RgbChannels>>, 0)))),
     wrist_image |-> _parse_image(
         Get(d, "wrist_image",
             Get(d, "observation/wrist_image",
                 Array(<<DefaultImageSize, DefaultImageSize, RgbChannels>>, 0))))]

\* the image dict and the image mask dict built from one observation
ImageDict(o) ==
    Dict([name \in {"base_0_rgb", "left_wrist_0_rgb", "right_wrist_0_rgb"} |->
            CASE name = "base_0_rgb" -> o.base_image
              [] name = "left_wrist_0_rgb" -> o.wrist_image
              [] name = "right_wrist_0_rgb" -> ZerosLike(o.base_image)])

ImageMaskDict(mask_padding) ==
    Dict([name \in {"base_0_rgb", "left_wrist_0_rgb", "right_wrist_0_rgb"} |->
            IF name = "right_wrist_0_rgb" /\ mask_padding
            THEN Scalar("bool", 0) ELSE Scalar("bool", 1)])

ModelTypes == {"PI0", "PI0_FAST"}

\* LiberoObsDistillationInputs.__call__: a new record built from the
\* current observation, the previous one (the current one again when the
\* record has no prev_observation), the previous actions, the actions and
\* the prompt
LiberoObsDistillationInputs(data_, action_dim, model_type) ==
    LET mask_padding == model_type = "PI0"
        current == ObservationOf(data_, action_dim)
        prev == IF "prev_observation" \in DOMAIN data_
                THEN ObservationOf(data_["prev_observation"].items, action_dim)
                ELSE current
        keys == {"state", "image", "image_mask", "prev_state", "prev_image",
                 "prev_image_mask", "prev_actions"}
                \cup (IF "actions" \in DOMAIN data_ THEN {"actions"} ELSE {})
                \cup (IF "prompt" \in DOMAIN data_ THEN {"prompt"} ELSE {})
    IN [k \in keys |->
          CASE k = "state" -> current.state
            [] k = "image" -> ImageDict(current)
            [] k = "image_mask" -> ImageMaskDict(mask_padding)
            [] k = "prev_state" -> prev.state
            [] k = "prev_image" -> ImageDict(prev)
            [] k = "prev_image_mask" -> ImageMaskDict(mask_padding)
            [] k = "prev_actions" ->
                 IF "prev_actions" \in DOMAIN data_
                 THEN pad_to_dim(data_["prev_actions"], action_dim)
                 ELSE Array(<<action_dim>>, 0)
            [] k = "actions" -> pad_to_dim(data_["actions"], action_dim)
            [] k = "prompt" -> data_["prompt"]]

\* the next stage of the pipeline: LiberoObsDistillationInputs applied to
\* the record the transform returned
LiberoInputs ==
    /\ pc = "transformed"
    /\ pc' = "inputs"
    /\ \E model_type \in ModelTypes :
          inputs' = LiberoObsDistillationInputs(transform_result, ActionDim, model_type)
    /\ UNCHANGED <<data, handle_first_timestep, transform_result, prefix_vars,
                   decode_vars, loss_vars>>

NextTransform == Transform \/ LiberoInputs

SpecTransform == InitTransform /\ [][NextTransform]_vars

-----------------------------------------------------------------------------
(* Properties of ObservationDistillationTransform (SpecTransform) *)

\* the record has no usable previous timestep
FirstTimestep(data_) == ~("trajectory_data" \in DOMAIN data_ /\ Timestep(data_) > 0)

\* C18: under handle_first_timestep = "zero", on a record with no usable
\* previous timestep, prev_observation is a mapping with exactly the keys of
\* the input record, every array-valued field (the actions included) replaced
\* by zeros of its shape and every other field as it was; the input record is
\* not modified and each of its keys is in the result with its value.
C18_ZeroModeZeroesWholeRecord ==
    [][(/\ pc = "input" /\ pc' = "transformed"
        /\ handle_first_timestep = "zero"
        /\ FirstTimestep(data)) =>
          LET prev == transform_result'["prev_observation"] IN
          /\ prev.kind = "dict"
          /\ DOMAIN prev.items = DOMAIN data
          /\ \A k \in DOMAIN data :
                IF data[k].kind = "array"
                THEN prev.items[k] = Array(data[k].shape, 0)
                ELSE prev.items[k] = data[k]
          /\ data' = data
          /\ \A k \in DOMAIN data :
                k \in DOMAIN transform_result' /\ transform_result'[k] = data[k]
      ]_vars

C18_Witness ==
    /\ pc = "transformed"
    /\ handle_first_timestep = "zero"
    /\ {"actions", "prompt", "trajectory_data", "timestep", "image"} \subseteq DOMAIN data
    /\ Timestep(data) = 0
    /\ data["actions"].v # 0
    /\ transform_result["prev_observation"].items["actions"] =
          Array(<<ActionHorizon, ActionDim>>, 0)
    /\ transform_result["prev_observation"].items["prompt"] = data["prompt"]

-----------------------------------------------------------------------------
(* Further properties of the cache layout (SpecCache) *)

\* C21: the step body runs only at a counter s < max_decoding_steps; the
\* cache slot it fills and the highest position its mask exposes, both
\* prefill_size + s, lie inside the extent prefill_size + max_decoding_steps;
\* the counter grows by exactly 1 per step.
C21_StepInsideExtent ==
    [][(pc = "loop" /\ step' # step) =>
          /\ step < max_decoding_steps
          /\ step' = step + 1
          /\ kv_cache = step /\ kv_cache' = kv_cache + 1
          /\ prefill_size + kv_cache < prefill_size + max_decoding_steps
          /\ \A b \in Batch :
                /\ DOMAIN decode_mask'[b] = Range0(prefill_size + max_decoding_steps)
                /\ prefill_size + step \in DOMAIN decode_mask'[b]
                /\ decode_mask'[b][prefill_size + step]
                /\ \A n \in DOMAIN decode_mask'[b] :
                      decode_mask'[b][n] => n <= prefill_size + step
      ]_vars

C21_Witness ==
    /\ pc = "done"
    /\ max_decoding_steps = MaxDecodingSteps
    /\ step = max_decoding_steps
    /\ kv_cache = max_decoding_steps
    /\ \A b \in Batch :
          decode_mask[b][prefill_size + max_decoding_steps - 1]

\* C24 as claimed: within one decode call the position indices of an example
\* are consecutive: the valid prefix tokens get 0..prefill_len-1 in order and
\* the token generated at step s is fed at position prefill_len + s.
C24_ConsecutivePositions ==
    pc \in {"loop", "done"} =>
        \A b \in Batch :
            /\ \A i \in Range0(prefill_size) :
                  prefix_mask[b][i] => prefix_positions[b][i] = i - prefix_start[b]
            /\ step > 0 => positions[b] = prefill_len[b] + (step - 1)

(* Greedy decoding and the random key (Spec) *)

\* C22: with temperature <= 0 the token a step selects is the arg-max of the
\* last logits whatever the key, so the token, the output buffer and the
\* end-of-sequence flag after the step (hence the number of steps) are the
\* same for every key; and at every step, whatever the temperature, the
\* carried key is the first half of one split of the key.
C22_GreedyIgnoresKey ==
    [][(pc = "loop" /\ step' # step) =>
          /\ rng' = Split(rng)[1]
          /\ temperature <= 0 =>
                \A key \in Range0(KeySpace) :
                    LET tok == [b \in Batch |->
                                  SelectToken(temperature, Split(key)[2], b, last_logit[b])]
                    IN /\ tok = [b \in Batch |-> ArgMax(last_logit[b])]
                       /\ token' = tok
                       /\ output_tokens' =
                             [b \in Batch |->
                                 put_along_last_axis(output_tokens[b], step, tok[b])]
                       /\ all_eos' = (\A b \in Batch : tok[b] = PALIGEMMA_EOS_TOKEN)
      ]_vars

\* a greedy call with a negative temperature ran every step, and a token it
\* selected is the arg-max of a row on which sampling with some key differs
C22_Witness ==
    /\ pc = "done"
    /\ temperature < 0
    /\ max_decoding_steps = MaxDecodingSteps
    /\ step = max_decoding_steps
    /\ \E b \in Batch : \E row \in logit_rows : \E key \in Range0(KeySpace) :
          /\ token[b] = ArgMax(row)
          /\ Categorical(key, b, row) # token[b]

(* The positions the loss reads (SpecLoss) *)

\* C23: in a loss call that returns, whatever the number of cameras and
\* whether or not an action span is present, the logit that scores prompt
\* token k+1 (k in 0..max_token_len-2) is the backbone output at the sequence
\* position of prompt token k of the observation embedded: after the image
\* tokens and the action span for the student, after the image tokens for the
\* teacher; and the KL term pairs student and teacher logits of the same k.
C23_LogitsAtPromptPositions ==
    (pc = "returned" /\ result.fn \in LossFns) =>
        LET student_obs == IF result.fn = "distilled.compute_loss"
                              /\ ~prev_observation.is_none
                           THEN prev_observation.value ELSE observation
            span == IF (~call_actions.is_none) /\ config.use_action_input
                    THEN ActionHorizon ELSE 0
            student_base == Size(student_obs.images) * ImageSegmentLength + span
            teacher_base == Size(observation.images) * ImageSegmentLength
        IN /\ DOMAIN result.student_logits = Range0(MaxTokenLen - 1)
           /\ \A k \in Range0(MaxTokenLen - 1) :
                 /\ result.student_logits[k].pos = student_base + k
                 /\ result.student_logits[k].at =
                       Emb("tok", 0, student_obs.tokenized_prompt[k])
                 /\ result.targets[k] = student_obs.tokenized_prompt[k + 1]
           /\ result.teacher_called =>
                 /\ DOMAIN result.teacher_logits = Range0(MaxTokenLen - 1)
                 /\ \A k \in Range0(MaxTokenLen - 1) :
                       /\ result.teacher_logits[k].pos = teacher_base + k
                       /\ result.teacher_logits[k].at =
                             Emb("tok", 0, observation.tokenized_prompt[k])
                 /\ result.kl_loss =
                       MaskedMean([k \in Range0(MaxTokenLen - 1) |->
                                      KlAt(result.student_logits[k],
                                           result.teacher_logits[k])],
                                  result.loss_mask)

\* a distillation call with an action span, a previous observation of
\* MaxImages cameras and a current observation without cameras: student and
\* teacher logits of the same index come from different sequence positions
C23_Witness ==
    /\ pc = "returned"
    /\ result.fn = "distilled.compute_loss"
    /\ result.teacher_called
    /\ ~call_actions.is_none
    /\ config.use_action_input
    /\ ~prev_observation.is_none
    /\ Size(prev_observation.value.images) = MaxImages
    /\ Size(observation.images) = 0
    /\ result.student_logits[0].pos = MaxImages * ImageSegmentLength + ActionHorizon
    /\ result.teacher_logits[0].pos = 0

(* The skip mark through the pipeline (SpecTransform) *)

\* C25 as claimed: a record that the transform marked with skip_sample = True
\* (handle_first_timestep = "skip", no usable previous timestep) still
\* carries the mark after LiberoObsDistillationInputs, and is not a sample
\* whose previous observation duplicates the current one.
C25_SkipMarkSurvivesInputs ==
    (/\ pc = "inputs"
     /\ handle_first_timestep = "skip"
     /\ FirstTimestep(data)
     /\ "skip_sample" \in DOMAIN transform_result) =>
        /\ "skip_sample" \in DOMAIN inputs
        /\ inputs["skip_sample"] = Scalar("bool", 1)
        /\ ~(/\ inputs["prev_state"] = inputs["state"]
             /\ inputs["prev_image"] = inputs["image"])
====
